---- MODULE Spec2Model ----
(***************************************************************************)
(* The live preview of ghostwriter (src/src/htmlpreview.cpp): the          *)
(* single-flight render coordination of HtmlPreview::updatePreview and     *)
(* HtmlPreviewPrivate::onHtmlReady, the line diff that anchors the scroll  *)
(* position, the worker's exportToHtml, the page's script on the web       *)
(* channel, and the destructor.                                            *)
(*                                                                         *)
(* Texts are sequences of one-character strings.  The control thread's     *)
(* handlers are operators on a record of the object's fields, composed in  *)
(* the order the code calls them; each action commits one whole handler.   *)
(***************************************************************************)
EXTENDS Integers, Sequences, FiniteSets, TLC

VARIABLES
    document,         \* MarkdownDocument: its plain text
    filePath,         \* MarkdownDocument::filePath(), a sequence of path components
    visible,          \* QWidget::isVisible()
    exporter,         \* d->exporter, NoExporter for nullptr
    smartTypography,  \* each Exporter's smartTypographyEnabled()
    updateInProgress, \* d->updateInProgress
    updateAgain,      \* d->updateAgain
    vanillaHtml,      \* d->vanillaHtml
    livePreviewHtml,  \* d->livePreviewHtml.text(), the published markup
    baseUrl,          \* d->baseUrl
    shellBaseUrl,     \* the base URL of the page last loaded by setHtml()
    future,           \* the QFuture watched by d->futureWatcher
    dispatched,       \* renders handed to QtConcurrent::run and not yet delivered
    calls,            \* the calls made by the last control-thread handler, in order
    callsInFlight,    \* history: updatePreview() calls since the render in flight began
    tracked,          \* history: one updatePreview() call followed to its render
    preRenderSmart,   \* history: the exporter's setting when the worker began
    styleSheet,       \* d->styleSheet.text()
    page,             \* the loaded page's script: attached to the channel, and what it shows
    lifecycle,        \* the HtmlPreview object: "alive", "waiting" in its destructor, "destroyed"
    resetInFlight     \* history: the content was reset since the render in flight began

vars == <<document, filePath, visible, exporter, smartTypography,
          updateInProgress, updateAgain, vanillaHtml, livePreviewHtml,
          baseUrl, shellBaseUrl, future, dispatched, calls, callsInFlight,
          tracked, preRenderSmart, styleSheet, page, lifecycle, resetInFlight>>

---------------------------------------------------------------------------
\* Bounds of the model.

\* Longest document text.
MaxDocLen == 2

\* Longest render result given to the diff in DiffSpec.
MaxHtmlLen == 4

\* Most updatePreview() calls counted during one render.
MaxCalls == 3

---------------------------------------------------------------------------
\* Texts.

NL == "\n"

\* The characters of a document: the straight quote, which smart
\* typography replaces.
DocChars == {"q"}

\* The characters of rendered markup: also the typographic quote.
HtmlChars == {"q", "Q", NL}

TextsUpTo(chars, n) == UNION {[1..k -> chars] : k \in 0..n}

Docs == TextsUpTo(DocChars, MaxDocLen)

Htmls == TextsUpTo(HtmlChars, MaxHtmlLen)

\* The scroll anchor, one token of the published markup.
Anchor == "<a id=\"livepreviewmodifypoint\"></a>"

NoExporter == "nullptr"

Exporters == {"exporterA", "exporterB"}

\* A file path is a sequence of components; the empty sequence is no path.
Paths == {<<>>, <<"dir", "file">>}

---------------------------------------------------------------------------
\* F of the value of v, which is evaluated once.
With(v, F(_)) == CHOOSE r \in {F(x) : x \in {v}} : TRUE

---------------------------------------------------------------------------
\* QTextStream over a QString, as onHtmlReady() uses it.

\* A QString that readLine() returned: null at the end of the stream.
NullLine == [isNull |-> TRUE, text |-> <<>>]

\* The index of the first line break of a text, 0 when it has none.
FirstBreak(text) ==
    IF \E i \in 1..Len(text) : text[i] = NL
    THEN CHOOSE i \in 1..Len(text) :
             /\ text[i] = NL
             /\ \A j \in 1..(i - 1) : text[j] # NL
    ELSE 0

\* QTextStream::readLine(): the text up to the next line break, which is
\* consumed and not returned; a null string once the stream is at its end.
ReadLine(stream) ==
    IF stream = <<>>
    THEN [line |-> NullLine, rest |-> <<>>]
    ELSE With(FirstBreak(stream), LAMBDA i :
             IF i = 0
             THEN [line |-> [isNull |-> FALSE, text |-> stream], rest |-> <<>>]
             ELSE [line |-> [isNull |-> FALSE, text |-> SubSeq(stream, 1, i - 1)],
                   rest |-> SubSeq(stream, i + 1, Len(stream))])

---------------------------------------------------------------------------
\* The diff of onHtmlReady().  A diff state holds the two streams, the line
\* last read from each, the anchored text written so far and the flag.

DiffStart(oldHtml, newHtml) ==
    [oldLine |-> ReadLine(oldHtml).line, oldDoc |-> ReadLine(oldHtml).rest,
     newLine |-> ReadLine(newHtml).line, newDoc |-> ReadLine(newHtml).rest,
     anchoredHtml |-> <<>>, differenceFound |-> FALSE]

\* The first loop with the anchor written after the line that differs.
RECURSIVE CommonPrefixLoopAnchorLate(_)
CommonPrefixLoopAnchorLate(state) ==
    With(state, LAMBDA d :
        IF ~d.oldLine.isNull /\ ~d.newLine.isNull /\ ~d.differenceFound
        THEN IF d.oldLine.text # d.newLine.text
             THEN [d EXCEPT !.differenceFound = TRUE,
                            !.anchoredHtml = @ \o d.newLine.text \o <<NL, Anchor>>,
                            !.newLine = ReadLine(d.newDoc).line,
                            !.newDoc = ReadLine(d.newDoc).rest]
             ELSE CommonPrefixLoopAnchorLate(
                      [d EXCEPT !.anchoredHtml = @ \o d.newLine.text \o <<NL>>,
                                !.oldLine = ReadLine(d.oldDoc).line,
                                !.oldDoc = ReadLine(d.oldDoc).rest,
                                !.newLine = ReadLine(d.newDoc).line,
                                !.newDoc = ReadLine(d.newDoc).rest])
        ELSE d)

\* The first loop: copy the lines the two texts share, stop at the first
\* pair that differs and put the anchor there.
RECURSIVE CommonPrefixLoop(_)
CommonPrefixLoop(state) ==
    With(state, LAMBDA d :
        IF ~d.oldLine.isNull /\ ~d.newLine.isNull /\ ~d.differenceFound
        THEN IF d.oldLine.text # d.newLine.text
             THEN CommonPrefixLoop([d EXCEPT !.differenceFound = TRUE,
                                             !.anchoredHtml = Append(@, Anchor)])
             ELSE CommonPrefixLoop(
                      [d EXCEPT !.anchoredHtml = @ \o d.newLine.text \o <<NL>>,
                                !.oldLine = ReadLine(d.oldDoc).line,
                                !.oldDoc = ReadLine(d.oldDoc).rest,
                                !.newLine = ReadLine(d.newDoc).line,
                                !.newDoc = ReadLine(d.newDoc).rest])
        ELSE d)

\* No anchor for lines removed at the end.
TruncationAnchorSkipped(state) == state

\* Lines were removed at the end of the new text: the anchor goes there.
TruncationAnchor(state) ==
    With(state, LAMBDA d :
        IF ~d.differenceFound /\ ~d.oldLine.isNull /\ d.newLine.isNull
        THEN [d EXCEPT !.differenceFound = TRUE,
                       !.anchoredHtml = Append(@, Anchor)]
        ELSE d)

\* The last loop: copy what is left of the new text, after the anchor.
RECURSIVE RemainingLoop(_)
RemainingLoop(state) ==
    With(state, LAMBDA d :
        IF ~d.newLine.isNull
        THEN RemainingLoop(
                 [d EXCEPT !.differenceFound = TRUE,
                           !.anchoredHtml =
                               (IF ~d.differenceFound THEN Append(@, Anchor) ELSE @)
                                   \o d.newLine.text \o <<NL>>,
                           !.newLine = ReadLine(d.newDoc).line,
                           !.newDoc = ReadLine(d.newDoc).rest])
        ELSE d)

\* The anchored text and whether a difference was found.
Diff(oldHtml, newHtml) ==
    RemainingLoop(TruncationAnchor(CommonPrefixLoop(DiffStart(oldHtml, newHtml))))

---------------------------------------------------------------------------
\* The exporter (exporter.h): a total function from text to markup, which
\* writes typographic quotes when its smart typography is on.  exporterA
\* ends every line of its output with a line break; exporterB writes the
\* text as it stands.

SmartQuotes(text, smart) ==
    [i \in 1..Len(text) |-> IF smart /\ text[i] = "q" THEN "Q" ELSE text[i]]

RECURSIVE EndEachLine(_)
EndEachLine(text) ==
    IF text = <<>>
    THEN <<>>
    ELSE With(ReadLine(text), LAMBDA r :
             r.line.text \o <<NL>> \o EndEachLine(r.rest))

ExportToHtml(e, text, smart) ==
    IF e = "exporterA"
    THEN EndEachLine(SmartQuotes(text, smart))
    ELSE SmartQuotes(text, smart)

---------------------------------------------------------------------------
\* The page loaded by setHtml(): whether its script has attached to the web
\* channel, and the content and the style sheet it was last given.

NoPage == [attached |-> FALSE, content |-> <<>>, style |-> <<>>]

---------------------------------------------------------------------------
\* The fields a control-thread handler reads and writes, as one record.

NoFuture ==
    [pc |-> "none", text |-> <<>>, exporter |-> NoExporter,
     saved |-> FALSE, html |-> <<>>]

St ==
    [document |-> document, filePath |-> filePath, visible |-> visible,
     exporter |-> exporter, updateInProgress |-> updateInProgress,
     updateAgain |-> updateAgain, vanillaHtml |-> vanillaHtml,
     livePreviewHtml |-> livePreviewHtml, baseUrl |-> baseUrl,
     shellBaseUrl |-> shellBaseUrl, future |-> future,
     dispatched |-> dispatched, calls |-> calls,
     callsInFlight |-> callsInFlight, styleSheet |-> styleSheet,
     page |-> page, resetInFlight |-> resetInFlight]

\* A call is written to the record of the handler's calls.
Called(s, name) == [s EXCEPT !.calls = Append(@, name)]

\* StringObserver::setText (stringobserver.h) on livePreviewHtml: a text
\* that differs from the stored one is stored and textChanged() is emitted,
\* which gives the text to the page's script when it is attached; the same
\* text again changes nothing and notifies nobody.
setText(s, text) ==
    IF text = s.livePreviewHtml
    THEN s
    ELSE [Called(s, "textChanged") EXCEPT
             !.livePreviewHtml = text,
             !.page.content = IF s.page.attached THEN text ELSE @]

\* HtmlPreviewPrivate::setHtmlContent
setHtmlContent(s, html) ==
    With(html, LAMBDA text :
        setText([Called(s, "setHtmlContent") EXCEPT !.vanillaHtml = text], text))

\* QtConcurrent::run of exportToHtml on the document's text, and
\* futureWatcher->setFuture.
RunExport(s) ==
    With(Called(s, "run"), LAMBDA s0 :
        [s0 EXCEPT
            !.future = [pc |-> "queued", text |-> s0.document,
                        exporter |-> s0.exporter, saved |-> FALSE, html |-> <<>>],
            !.dispatched = @ + 1,
            !.callsInFlight = 0,
            !.resetInFlight = FALSE])

\* updatePreview() without its test of updateInProgress.
updatePreviewNoGuard(s) ==
    With(Called(s, "updatePreview"), LAMBDA s0 :
        IF ~s0.visible
        THEN s0
        ELSE IF s0.document = <<>>
        THEN setHtmlContent(s0, <<>>)
        ELSE IF s0.exporter # NoExporter
        THEN RunExport([s0 EXCEPT !.updateInProgress = TRUE])
        ELSE s0)

\* updatePreview() that returns during a render without setting updateAgain.
updatePreviewDropsRequest(s) ==
    With(Called(s, "updatePreview"), LAMBDA s0 :
        IF s0.updateInProgress
        THEN [s0 EXCEPT !.callsInFlight = @ + 1]
        ELSE IF ~s0.visible
        THEN s0
        ELSE IF s0.document = <<>>
        THEN setHtmlContent(s0, <<>>)
        ELSE IF s0.exporter # NoExporter
        THEN RunExport([s0 EXCEPT !.updateInProgress = TRUE])
        ELSE s0)

\* updatePreview() without the test of isVisible().
updatePreviewIgnoresVisible(s) ==
    With(Called(s, "updatePreview"), LAMBDA s0 :
        IF s0.updateInProgress
        THEN [s0 EXCEPT !.updateAgain = TRUE, !.callsInFlight = @ + 1]
        ELSE IF s0.document = <<>>
        THEN setHtmlContent(s0, <<>>)
        ELSE IF s0.exporter # NoExporter
        THEN RunExport([s0 EXCEPT !.updateInProgress = TRUE])
        ELSE s0)

\* updatePreview() that does nothing for an empty document.
updatePreviewSkipsEmpty(s) ==
    With(Called(s, "updatePreview"), LAMBDA s0 :
        IF s0.updateInProgress
        THEN [s0 EXCEPT !.updateAgain = TRUE, !.callsInFlight = @ + 1]
        ELSE IF ~s0.visible
        THEN s0
        ELSE IF s0.document = <<>>
        THEN s0
        ELSE IF s0.exporter # NoExporter
        THEN RunExport([s0 EXCEPT !.updateInProgress = TRUE])
        ELSE s0)

\* updatePreview() that looks for an exporter before it looks at the
\* document.
updatePreviewExporterFirst(s) ==
    With(Called(s, "updatePreview"), LAMBDA s0 :
        IF s0.updateInProgress
        THEN [s0 EXCEPT !.updateAgain = TRUE, !.callsInFlight = @ + 1]
        ELSE IF ~s0.visible
        THEN s0
        ELSE IF s0.exporter # NoExporter
        THEN RunExport([s0 EXCEPT !.updateInProgress = TRUE])
        ELSE IF s0.document = <<>>
        THEN setHtmlContent(s0, <<>>)
        ELSE s0)

\* updatePreview() that clears the content when no exporter is set.
updatePreviewNoExporterClears(s) ==
    With(Called(s, "updatePreview"), LAMBDA s0 :
        IF s0.updateInProgress
        THEN [s0 EXCEPT !.updateAgain = TRUE, !.callsInFlight = @ + 1]
        ELSE IF ~s0.visible
        THEN s0
        ELSE IF s0.document = <<>>
        THEN setHtmlContent(s0, <<>>)
        ELSE IF s0.exporter # NoExporter
        THEN RunExport([s0 EXCEPT !.updateInProgress = TRUE])
        ELSE setHtmlContent(s0, <<>>))

\* HtmlPreview::updatePreview
updatePreview(s) ==
    With(Called(s, "updatePreview"), LAMBDA s0 :
        IF s0.updateInProgress
        THEN [s0 EXCEPT !.updateAgain = TRUE, !.callsInFlight = @ + 1]
        ELSE IF ~s0.visible
        THEN s0
        ELSE IF s0.document = <<>>
        THEN setHtmlContent(s0, <<>>)
        ELSE IF s0.exporter # NoExporter
        THEN RunExport([s0 EXCEPT !.updateInProgress = TRUE])
        ELSE s0)

\* The diff of onHtmlReady() that publishes whether or not a difference
\* was found.
PublishAlways(s) ==
    With(Diff(s.vanillaHtml, s.future.html), LAMBDA d :
        [setHtmlContent(s, d.anchoredHtml) EXCEPT !.vanillaHtml = s.future.html])

\* The diff of onHtmlReady() that keeps the anchored text as the baseline.
PublishAnchoredAsBaseline(s) ==
    With(Diff(s.vanillaHtml, s.future.html), LAMBDA d :
        IF d.differenceFound
        THEN setHtmlContent(s, d.anchoredHtml)
        ELSE s)

\* The diff of onHtmlReady() that drops the result of a render during
\* which the content was reset.
PublishDifferenceUnlessReset(s) ==
    With(Diff(s.vanillaHtml, s.future.html), LAMBDA d :
        IF d.differenceFound /\ ~s.resetInFlight
        THEN [setHtmlContent(s, d.anchoredHtml) EXCEPT !.vanillaHtml = s.future.html]
        ELSE s)

\* onHtmlReady(), the diff: the result is compared with vanillaHtml line by
\* line; when they differ the anchored text is published and the result
\* becomes the baseline.
PublishDifference(s) ==
    With(Diff(s.vanillaHtml, s.future.html), LAMBDA d :
        IF d.differenceFound
        THEN [setHtmlContent(s, d.anchoredHtml) EXCEPT !.vanillaHtml = s.future.html]
        ELSE s)

\* The end of onHtmlReady() without the call of updatePreview().
FinishUpdateNoRerun(s) ==
    [s EXCEPT !.updateInProgress = FALSE,
              !.updateAgain = FALSE,
              !.future = NoFuture,
              !.dispatched = @ - 1,
              !.callsInFlight = 0,
              !.resetInFlight = FALSE]

\* The end of onHtmlReady() that leaves updateAgain set.
FinishUpdateKeepAgain(s) ==
    With([s EXCEPT !.updateInProgress = FALSE,
                   !.future = NoFuture,
                   !.dispatched = @ - 1,
                   !.callsInFlight = 0,
                   !.resetInFlight = FALSE],
         LAMBDA s2 :
            IF s2.updateAgain
            THEN [updatePreview([s2 EXCEPT !.updateAgain = FALSE])
                     EXCEPT !.updateAgain = TRUE]
            ELSE s2)

\* The end of onHtmlReady() that clears updateInProgress only on its way to
\* updatePreview().
FinishUpdateKeepsSlot(s) ==
    With([s EXCEPT !.future = NoFuture,
                   !.dispatched = @ - 1,
                   !.callsInFlight = 0,
                   !.resetInFlight = FALSE],
         LAMBDA s2 :
            IF s2.updateAgain
            THEN updatePreview([s2 EXCEPT !.updateAgain = FALSE,
                                          !.updateInProgress = FALSE])
            ELSE s2)

\* onHtmlReady(), its end: the render is no longer in flight, and a request
\* that arrived meanwhile is served by one call of updatePreview().
FinishUpdate(s) ==
    With([s EXCEPT !.updateInProgress = FALSE,
                   !.future = NoFuture,
                   !.dispatched = @ - 1,
                   !.callsInFlight = 0,
                   !.resetInFlight = FALSE],
         LAMBDA s2 :
            IF s2.updateAgain
            THEN updatePreview([s2 EXCEPT !.updateAgain = FALSE])
            ELSE s2)

\* HtmlPreviewPrivate::onHtmlReady, run when the watcher's finished() signal
\* is delivered.
onHtmlReady(s) ==
    FinishUpdate(PublishDifference(Called(s, "onHtmlReady")))

\* The URL of the directory of a file, with the slash the code appends;
\* empty for a document without a path.
BaseUrlOf(path) ==
    IF path # <<>>
    THEN <<"file://">> \o SubSeq(path, 1, Len(path) - 1) \o <<"/">>
    ELSE <<>>

\* updateBaseDir() that loads the page before it computes the base URL.
updateBaseDirStaleUrl(s) ==
    With([Called(Called(s, "updateBaseDir"), "setHtml") EXCEPT
              !.shellBaseUrl = s.baseUrl, !.page = NoPage],
         LAMBDA s0 :
            updatePreview([s0 EXCEPT !.baseUrl = BaseUrlOf(s0.filePath)]))

\* HtmlPreviewPrivate::updateBaseDir.  setHtml() loads the page anew: the
\* script of the page before is gone and the new one has yet to attach.
updateBaseDir(s) ==
    With([Called(s, "updateBaseDir") EXCEPT !.baseUrl = BaseUrlOf(s.filePath)],
         LAMBDA s0 :
            updatePreview([Called(s0, "setHtml") EXCEPT
                              !.shellBaseUrl = s0.baseUrl, !.page = NoPage]))

\* setHtmlExporter() that keeps the baseline and the published markup.
setHtmlExporterKeepsBaseline(s, e) ==
    updatePreview([Called(s, "setHtmlExporter") EXCEPT
                      !.exporter = e, !.resetInFlight = s.updateInProgress])

\* HtmlPreview::setHtmlExporter
setHtmlExporter(s, e) ==
    updatePreview(
        setHtmlContent([Called(s, "setHtmlExporter") EXCEPT
                           !.exporter = e, !.resetInFlight = s.updateInProgress],
                       <<>>))

\* closeEvent() that leaves the content as it is.
closeEventKeepsContent(s) ==
    [Called(s, "closeEvent") EXCEPT !.resetInFlight = s.updateInProgress]

\* HtmlPreview::closeEvent
closeEvent(s) ==
    setText([setHtmlContent([Called(s, "closeEvent") EXCEPT
                                !.resetInFlight = s.updateInProgress], <<>>)
                EXCEPT !.vanillaHtml = <<>>],
            <<>>)

\* HtmlPreviewPrivate::exportToHtml on the worker, up to the export: the
\* exporter's setting is kept and smart typography is turned on.
exportToHtmlBegin(w) ==
    [future |-> [w.future EXCEPT !.pc = "running",
                                 !.saved = w.smartTypography[w.future.exporter]],
     smartTypography |-> [w.smartTypography EXCEPT ![w.future.exporter] = TRUE]]

\* exportToHtml that does not put the setting back.
exportToHtmlEndNoRestore(w) ==
    [future |-> [w.future EXCEPT
                    !.pc = "finished",
                    !.html = ExportToHtml(w.future.exporter, w.future.text,
                                          w.smartTypography[w.future.exporter]),
                    !.saved = FALSE],
     smartTypography |-> w.smartTypography]

\* exportToHtml from the export on: the text is exported, the setting is put
\* back and the future holds the result.
exportToHtmlEnd(w) ==
    LET e == w.future.exporter
    IN  [future |-> [w.future EXCEPT
                        !.pc = "finished",
                        !.html = ExportToHtml(e, w.future.text, w.smartTypography[e]),
                        !.saved = FALSE],
         smartTypography |-> [w.smartTypography EXCEPT ![e] = w.future.saved]]

\* HtmlPreview::setStyleSheet: StringObserver::setText on styleSheet, which
\* notifies as the one on livePreviewHtml does.
setStyleSheet(s, css) ==
    With(Called(s, "setStyleSheet"), LAMBDA s0 :
        IF css = s0.styleSheet
        THEN s0
        ELSE [Called(s0, "styleSheet.textChanged") EXCEPT
                 !.styleSheet = css,
                 !.page.style = IF s0.page.attached THEN css ELSE @])

\* The page's callback that connects to the signals and does not read the
\* texts the objects hold.
onChannelReadyConnectOnly(s) ==
    [Called(s, "onChannelReady") EXCEPT !.page.attached = TRUE]

\* The callback the page's script gives to QWebChannel: it loads the
\* style sheet and the content the two objects hold, and connects
\* loadStyleSheet and updateText to their textChanged signals.
onChannelReady(s) ==
    [Called(s, "onChannelReady") EXCEPT
        !.page = [attached |-> TRUE, content |-> s.livePreviewHtml,
                  style |-> s.styleSheet]]

\* waitForFinished() that returns at once.
waitForFinishedReturnsAtOnce(f) == TRUE

\* QFutureWatcher::waitForFinished returns: the watched future has no
\* computation queued or running.
waitForFinished(f) == f.pc \notin {"queued", "running"}

---------------------------------------------------------------------------
\* History variables.

\* What the liveness of an update rests on: the preview is visible, an
\* exporter is set and the document is not empty.
CanRender(s) == s.visible /\ s.exporter # NoExporter /\ s.document # <<>>

\* A call of updatePreview() may become the tracked one.  It is "current"
\* when the render in flight took its text at or after the call, "next"
\* when only the render after that one will.
TrackCall(pre, post, mark) ==
    IF ~CanRender(post) THEN "none"
    ELSE IF tracked = "none" /\ mark
    THEN IF pre.updateInProgress THEN "next"
         ELSE IF post.updateInProgress THEN "current"
         ELSE "none"
    ELSE tracked

\* The tracked call after a completion: served by the render that covered
\* it, or covered by the render the completion dispatched.
TrackCompletion(post) ==
    IF ~CanRender(post) THEN "none"
    ELSE IF tracked = "next" /\ post.updateInProgress THEN "current"
    ELSE IF tracked = "current" THEN "none"
    ELSE tracked

TrackOther(post) == IF CanRender(post) THEN tracked ELSE "none"

\* The variables after a handler that left the fields as s.
Commit(s) ==
    /\ document' = s.document
    /\ filePath' = s.filePath
    /\ visible' = s.visible
    /\ exporter' = s.exporter
    /\ updateInProgress' = s.updateInProgress
    /\ updateAgain' = s.updateAgain
    /\ vanillaHtml' = s.vanillaHtml
    /\ livePreviewHtml' = s.livePreviewHtml
    /\ baseUrl' = s.baseUrl
    /\ shellBaseUrl' = s.shellBaseUrl
    /\ future' = s.future
    /\ dispatched' = s.dispatched
    /\ calls' = s.calls
    /\ callsInFlight' = s.callsInFlight
    /\ styleSheet' = s.styleSheet
    /\ page' = s.page
    /\ resetInFlight' = s.resetInFlight

\* A handler starts with an empty record of calls.
Entry == [St EXCEPT !.calls = <<>>]

---------------------------------------------------------------------------
\* The state after the constructor: the fields are cleared and
\* updateBaseDir() loads the page; the widget is not shown yet.

Constructed(doc, path, e) ==
    updateBaseDir(
        [document |-> doc, filePath |-> path, visible |-> FALSE,
         exporter |-> e, updateInProgress |-> FALSE, updateAgain |-> FALSE,
         vanillaHtml |-> <<>>, livePreviewHtml |-> <<>>, baseUrl |-> <<>>,
         shellBaseUrl |-> <<>>, future |-> NoFuture, dispatched |-> 0,
         calls |-> <<>>, callsInFlight |-> 0, styleSheet |-> <<>>,
         page |-> NoPage, resetInFlight |-> FALSE])

Init ==
    /\ \E doc \in Docs, path \in Paths, e \in Exporters \cup {NoExporter} :
           LET s == Constructed(doc, path, e)
           IN  /\ document = s.document
               /\ filePath = s.filePath
               /\ visible = s.visible
               /\ exporter = s.exporter
               /\ updateInProgress = s.updateInProgress
               /\ updateAgain = s.updateAgain
               /\ vanillaHtml = s.vanillaHtml
               /\ livePreviewHtml = s.livePreviewHtml
               /\ baseUrl = s.baseUrl
               /\ shellBaseUrl = s.shellBaseUrl
               /\ future = s.future
               /\ dispatched = s.dispatched
               /\ calls = s.calls
               /\ callsInFlight = s.callsInFlight
               /\ styleSheet = s.styleSheet
               /\ page = s.page
               /\ resetInFlight = s.resetInFlight
    /\ smartTypography \in [Exporters -> BOOLEAN]
    /\ tracked = "none"
    /\ preRenderSmart = FALSE
    /\ lifecycle = "alive"

---------------------------------------------------------------------------
\* The control thread.

\* A caller (the editor, on a change of the text) calls updatePreview().
UpdatePreview ==
    /\ lifecycle = "alive"
    /\ updateInProgress => callsInFlight < MaxCalls
    /\ \E mark \in BOOLEAN :
           \E s \in {updatePreview(Entry)} :
               /\ Commit(s)
               /\ tracked' = TrackCall(St, s, mark)
    /\ UNCHANGED <<smartTypography, preRenderSmart, lifecycle>>

\* The future watcher's finished() signal is delivered.
OnHtmlReady ==
    /\ lifecycle = "alive"
    /\ future.pc = "finished"
    /\ \E s \in {onHtmlReady(Entry)} :
           /\ Commit(s)
           /\ tracked' = TrackCompletion(s)
    /\ UNCHANGED <<smartTypography, preRenderSmart, lifecycle>>

\* The document's file path changes and filePathChanged() runs
\* updateBaseDir().
FilePathChanged ==
    /\ lifecycle = "alive"
    /\ updateInProgress => callsInFlight < MaxCalls
    /\ \E path \in Paths \ {filePath}, mark \in BOOLEAN :
           \E s \in {updateBaseDir([Entry EXCEPT !.filePath = path])} :
               /\ Commit(s)
               /\ tracked' = TrackCall(St, s, mark)
    /\ UNCHANGED <<smartTypography, preRenderSmart, lifecycle>>

SetHtmlExporter ==
    /\ lifecycle = "alive"
    /\ updateInProgress => callsInFlight < MaxCalls
    /\ \E e \in Exporters \cup {NoExporter}, mark \in BOOLEAN :
           \E s \in {setHtmlExporter(Entry, e)} :
               /\ Commit(s)
               /\ tracked' = TrackCall(St, s, mark)
    /\ UNCHANGED <<smartTypography, preRenderSmart, lifecycle>>

CloseEvent ==
    /\ lifecycle = "alive"
    /\ \E s \in {closeEvent(Entry)} :
           /\ Commit(s)
           /\ tracked' = TrackOther(s)
    /\ UNCHANGED <<smartTypography, preRenderSmart, lifecycle>>

---------------------------------------------------------------------------
\* The document and the window, outside the preview.

\* The user edits the document.
EditDocument ==
    /\ lifecycle = "alive"
    /\ \E text \in Docs \ {document} :
           \E s \in {[Entry EXCEPT !.document = text]} :
               /\ Commit(s)
               /\ tracked' = TrackOther(s)
    /\ UNCHANGED <<smartTypography, preRenderSmart, lifecycle>>

\* The preview is shown or hidden.
SetVisible ==
    /\ lifecycle = "alive"
    /\ \E s \in {[Entry EXCEPT !.visible = ~visible]} :
           /\ Commit(s)
           /\ tracked' = TrackOther(s)
    /\ UNCHANGED <<smartTypography, preRenderSmart, lifecycle>>

---------------------------------------------------------------------------
\* The worker thread of QtConcurrent::run.

WorkerBegin ==
    /\ future.pc = "queued"
    /\ \E w \in {exportToHtmlBegin([future |-> future,
                                   smartTypography |-> smartTypography])} :
           /\ future' = w.future
           /\ smartTypography' = w.smartTypography
    /\ preRenderSmart' = smartTypography[future.exporter]
    /\ calls' = <<>>
    /\ UNCHANGED <<document, filePath, visible, exporter, updateInProgress,
                   updateAgain, vanillaHtml, livePreviewHtml, baseUrl,
                   shellBaseUrl, dispatched, callsInFlight, tracked,
                   styleSheet, page, lifecycle, resetInFlight>>

WorkerEnd ==
    /\ future.pc = "running"
    /\ \E w \in {exportToHtmlEnd([future |-> future,
                                 smartTypography |-> smartTypography])} :
           /\ future' = w.future
           /\ smartTypography' = w.smartTypography
    /\ preRenderSmart' = FALSE
    /\ calls' = <<>>
    /\ UNCHANGED <<document, filePath, visible, exporter, updateInProgress,
                   updateAgain, vanillaHtml, livePreviewHtml, baseUrl,
                   shellBaseUrl, dispatched, callsInFlight, tracked,
                   styleSheet, page, lifecycle, resetInFlight>>

---------------------------------------------------------------------------
\* The page and its style sheet.

StyleSheets == {<<>>, <<"css">>}

\* The application sets the preview's style sheet.
SetStyleSheet ==
    /\ lifecycle = "alive"
    /\ \E css \in StyleSheets :
           \E s \in {setStyleSheet(Entry, css)} :
               /\ Commit(s)
               /\ tracked' = TrackOther(s)
    /\ UNCHANGED <<smartTypography, preRenderSmart, lifecycle>>

\* The loaded page's script has set up its web channel and runs its callback.
ChannelReady ==
    /\ lifecycle = "alive"
    /\ ~page.attached
    /\ \E s \in {onChannelReady(Entry)} :
           /\ Commit(s)
           /\ tracked' = TrackOther(s)
    /\ UNCHANGED <<smartTypography, preRenderSmart, lifecycle>>

---------------------------------------------------------------------------
\* The destructor, on the control thread: it waits in waitForFinished() and
\* no handler runs meanwhile; the worker goes on.

DestructorEnter ==
    /\ lifecycle = "alive"
    /\ lifecycle' = "waiting"
    /\ calls' = <<"~HtmlPreview">>
    /\ tracked' = "none"
    /\ UNCHANGED <<document, filePath, visible, exporter, smartTypography,
                   updateInProgress, updateAgain, vanillaHtml, livePreviewHtml,
                   baseUrl, shellBaseUrl, future, dispatched, callsInFlight,
                   preRenderSmart, styleSheet, page, resetInFlight>>

DestructorReturn ==
    /\ lifecycle = "waiting"
    /\ waitForFinished(future)
    /\ lifecycle' = "destroyed"
    /\ UNCHANGED <<document, filePath, visible, exporter, smartTypography,
                   updateInProgress, updateAgain, vanillaHtml, livePreviewHtml,
                   baseUrl, shellBaseUrl, future, dispatched, calls,
                   callsInFlight, tracked, preRenderSmart, styleSheet, page,
                   resetInFlight>>

---------------------------------------------------------------------------
\* The preview while it lives, seen from the coordinator: the page's script
\* and the style sheet have no part in what the handlers below decide.

Next ==
    \/ UpdatePreview
    \/ OnHtmlReady
    \/ FilePathChanged
    \/ SetHtmlExporter
    \/ CloseEvent
    \/ EditDocument
    \/ SetVisible
    \/ WorkerBegin
    \/ WorkerEnd

Spec == Init /\ [][Next]_vars

---------------------------------------------------------------------------
\* The preview with its page: the style sheet is set and the script of a
\* loaded page attaches at any time.  The exporters' settings, which the
\* page does not see, start off.

ChannelInit ==
    /\ Init
    /\ smartTypography = [e \in Exporters |-> FALSE]

ChannelNext ==
    \/ Next
    \/ SetStyleSheet
    \/ ChannelReady

ChannelSpec == ChannelInit /\ [][ChannelNext]_vars

---------------------------------------------------------------------------
\* The preview to its end: it may be destroyed at any time.

TeardownNext ==
    \/ Next
    \/ DestructorEnter
    \/ DestructorReturn

TeardownSpec == Init /\ [][TeardownNext]_vars

---------------------------------------------------------------------------
\* The diff alone: a render that finished with any result, delivered over
\* any baseline.  The published markup is the baseline's own publication.

DiffInit ==
    /\ \E oldHtml \in Htmls, newHtml \in Htmls :
           /\ vanillaHtml = oldHtml
           /\ livePreviewHtml = Diff(<<>>, oldHtml).anchoredHtml
           /\ future = [pc |-> "finished", text |-> <<"q">>,
                        exporter |-> "exporterB", saved |-> FALSE,
                        html |-> newHtml]
    /\ document \in {<<>>, <<"q">>}
    /\ updateAgain \in BOOLEAN
    /\ updateInProgress = TRUE
    /\ dispatched = 1
    /\ visible = TRUE
    /\ exporter = "exporterB"
    /\ smartTypography = [e \in Exporters |-> FALSE]
    /\ filePath = <<>>
    /\ baseUrl = <<>>
    /\ shellBaseUrl = <<>>
    /\ calls = <<>>
    /\ callsInFlight = 0
    /\ tracked = "none"
    /\ preRenderSmart = FALSE
    /\ styleSheet = <<>>
    /\ page = NoPage
    /\ lifecycle = "alive"
    /\ resetInFlight = FALSE

DiffSpec == DiffInit /\ [][OnHtmlReady]_vars

---------------------------------------------------------------------------
\* What the properties below are stated with.

Count(seq, x) == Cardinality({i \in DOMAIN seq : seq[i] = x})

\* The last control-thread handler was this one.
HandlerIs(name) == calls # <<>> /\ Head(calls) = name

\* This step delivers a finished render to onHtmlReady().
Completion == future.pc = "finished" /\ future'.pc # "finished"

\* The lines of a text: a line break ends a line and opens no empty last one.
RECURSIVE LinesOf(_)
LinesOf(text) ==
    IF text = <<>> THEN <<>>
    ELSE IF \A i \in 1..Len(text) : text[i] # NL THEN <<text>>
    ELSE LET i == CHOOSE j \in 1..Len(text) :
                      text[j] = NL /\ \A h \in 1..(j - 1) : text[h] # NL
         IN  <<SubSeq(text, 1, i - 1)>> \o LinesOf(SubSeq(text, i + 1, Len(text)))

\* Lines written out, each ended by a line break.
RECURSIVE Unlines(_)
Unlines(lines) ==
    IF lines = <<>> THEN <<>>
    ELSE Head(lines) \o <<NL>> \o Unlines(Tail(lines))

\* The length of the longest common prefix of two sequences of lines.
CommonPrefixLen(a, b) ==
    CHOOSE k \in 0..Len(a) :
        /\ k <= Len(b)
        /\ \A i \in 1..k : a[i] = b[i]
        /\ (k < Len(a) /\ k < Len(b)) => a[k + 1] # b[k + 1]

\* The lines with one anchor before line k (counted from 0).
AnchoredAt(lines, k) ==
    Unlines(SubSeq(lines, 1, k)) \o <<Anchor>>
        \o Unlines(SubSeq(lines, k + 1, Len(lines)))

---------------------------------------------------------------------------
\* C1 (single flight): at most one render is dispatched and not yet
\* delivered, and one is exactly when updateInProgress is set, so that no
\* entry point dispatches while updateInProgress is true.
C1_SingleFlight ==
    /\ dispatched \in {0, 1}
    /\ updateInProgress <=> dispatched = 1
    /\ updateInProgress <=> future.pc # "none"

\* A render is in flight and further requests arrived through
\* setHtmlExporter() meanwhile.
C1_Witness ==
    /\ dispatched = 1
    /\ callsInFlight >= 2
    /\ HandlerIs("setHtmlExporter")

\* C2 as stated: a completion after two or more coalesced calls dispatches
\* exactly one render.
C2_Original ==
    [][(Completion /\ callsInFlight >= 2) => Count(calls', "run") = 1]_vars

\* C2 (coalescing), amended: a completion after N >= 2 coalesced calls
\* re-invokes updatePreview() exactly once; that dispatches exactly one
\* render when the preview is visible, the document is not empty and an
\* exporter is set, and none otherwise; never N.
C2_Coalescing ==
    [][(Completion /\ callsInFlight >= 2) =>
          /\ Count(calls', "updatePreview") = 1
          /\ Count(calls', "run") = (IF CanRender(St) THEN 1 ELSE 0)
          /\ dispatched' = (IF CanRender(St) THEN 1 ELSE 0)
          /\ updateInProgress' = CanRender(St)
          /\ ~updateAgain']_vars

\* A render has finished during which at least two calls were coalesced,
\* and its completion can dispatch.
C2_Witness ==
    /\ future.pc = "finished"
    /\ callsInFlight >= 2
    /\ updateAgain
    /\ CanRender(St)

\* C4 (flags): updateAgain is set only while updateInProgress is, and it is
\* clear on return from onHtmlReady().
C4_FlagInvariant ==
    /\ updateAgain => updateInProgress
    /\ HandlerIs("onHtmlReady") => ~updateAgain

\* onHtmlReady() has returned after it re-invoked updatePreview().
C4_Witness ==
    /\ HandlerIs("onHtmlReady")
    /\ Count(calls, "updatePreview") = 1
    /\ updateInProgress

---------------------------------------------------------------------------
\* The scheduling the liveness of an update rests on: the thread pool runs
\* a queued export to its end and the event loop delivers finished().

FairSpec ==
    /\ Spec
    /\ WF_vars(WorkerBegin)
    /\ WF_vars(WorkerEnd)
    /\ WF_vars(OnHtmlReady)

\* C3 as stated: the tracked call is served, and the completion of the
\* render that covers it leaves vanillaHtml equal to that render's result.
C3_Original ==
    /\ (tracked # "none") ~> (tracked = "none")
    /\ [][(Completion /\ tracked = "current") => vanillaHtml' = future.html]_vars

\* C3 (every edit is reflected), amended: while the preview stays visible
\* with an exporter set and a document that is not empty, every call of
\* updatePreview() is followed by the completion of a render whose text was
\* taken at or after the call, and that completion leaves vanillaHtml equal
\* to the render's result as a sequence of lines (a result that differs from
\* the baseline only in its last line break is not stored).
C3_EveryEditReflected ==
    /\ (tracked # "none") ~> (tracked = "none")
    /\ [][(Completion /\ tracked = "current") =>
             /\ LinesOf(vanillaHtml') = LinesOf(future.html)
             /\ future.text # <<>>]_vars

\* A call made during a render is now covered by the render dispatched at
\* that render's completion.
C3_Witness ==
    /\ tracked = "current"
    /\ HandlerIs("onHtmlReady")
    /\ future.pc = "queued"
    /\ future.text = document

---------------------------------------------------------------------------
\* The diff properties are stated of a completion whose own publication is
\* what the step leaves: the updatePreview() it may call afterwards
\* publishes again only for an empty document.

PublishesAgain == updateAgain /\ visible /\ document = <<>>

OldLines == LinesOf(vanillaHtml)

NewLines == LinesOf(future.html)

\* C5 (anchor at the first divergence): when the result is not empty and
\* its lines differ from the baseline's, the published markup is the
\* result's lines, in order and unchanged, with one anchor before line k,
\* the length of the longest common prefix of the two; the result becomes
\* the baseline.
C5_AnchorAtFirstDivergence ==
    [][(Completion /\ NewLines # <<>> /\ NewLines # OldLines /\ ~PublishesAgain) =>
          /\ livePreviewHtml' = AnchoredAt(NewLines, CommonPrefixLen(NewLines, OldLines))
          /\ Count(livePreviewHtml', Anchor) = 1
          /\ vanillaHtml' = future.html
          /\ calls'[2] = "setHtmlContent"]_vars

\* An edit in the middle was published: the first line is shared, the
\* anchor stands before the changed line and the line after it follows.
C5_Witness ==
    /\ HandlerIs("onHtmlReady")
    /\ livePreviewHtml = <<NL, Anchor, "Q", NL, "q", NL>>

\* C6 (truncation): when the result's lines are a strict prefix of the
\* baseline's, the empty result included, the published markup is the
\* result's lines followed by one anchor; the result becomes the baseline.
C6_TruncationAnchored ==
    [][(Completion /\ Len(NewLines) < Len(OldLines)
            /\ NewLines = SubSeq(OldLines, 1, Len(NewLines)) /\ ~PublishesAgain) =>
          /\ livePreviewHtml' = Unlines(NewLines) \o <<Anchor>>
          /\ vanillaHtml' = future.html
          /\ calls'[2] = "setHtmlContent"]_vars

\* A result that lost its last line was published with the anchor at its end.
C6_Witness ==
    /\ HandlerIs("onHtmlReady")
    /\ livePreviewHtml = <<"q", NL, Anchor>>
    /\ vanillaHtml = <<"q">>

\* C7 (no-op render): when the result's lines equal the baseline's, the
\* diff publishes nothing: setHtmlContent() is not called for it, and
\* vanillaHtml and the published markup stay as they were.
C7_NoOpRender ==
    [][(Completion /\ NewLines = OldLines) =>
          /\ Len(calls') >= 2 => calls'[2] = "updatePreview"
          /\ ~PublishesAgain =>
                /\ vanillaHtml' = vanillaHtml
                /\ livePreviewHtml' = livePreviewHtml
                /\ Count(calls', "setHtmlContent") = 0]_vars

\* A render completed over a baseline with the same lines and nothing was
\* published.
C7_Witness ==
    /\ calls = <<"onHtmlReady">>
    /\ vanillaHtml = <<"q", NL, "Q">>
    /\ livePreviewHtml = <<Anchor, "q", NL, "Q", NL>>

\* A direct call of updatePreview() is this step.
UpdatePreviewCall == calls' # <<>> /\ Head(calls') = "updatePreview"

\* C8 as stated: a call while the preview is hidden changes nothing,
\* whether or not a render is in flight.
C8_Original ==
    [][(UpdatePreviewCall /\ ~visible) =>
          UNCHANGED <<updateInProgress, updateAgain, vanillaHtml,
                      livePreviewHtml, future, dispatched>>]_vars

\* C8 (visibility gating), amended: a call while the preview is hidden
\* dispatches no render and changes neither updateInProgress, vanillaHtml
\* nor the published markup; it leaves updateAgain as it was when no render
\* is in flight, and sets it when one is.
C8_VisibilityGating ==
    [][(UpdatePreviewCall /\ ~visible) =>
          /\ UNCHANGED <<updateInProgress, vanillaHtml, livePreviewHtml,
                         future, dispatched>>
          /\ updateAgain' = (updateAgain \/ updateInProgress)
          /\ calls' = <<"updatePreview">>]_vars

\* updatePreview() was called on a hidden preview during a render: the
\* request is kept for the render's completion.
C8_Witness ==
    /\ calls = <<"updatePreview">>
    /\ ~visible
    /\ updateInProgress
    /\ updateAgain
    /\ callsInFlight = 1

\* C9 (typography isolation): the export runs with smart typography on,
\* and when exportToHtml() returns the exporter's setting is what it was
\* before the render began, whatever that was; no other exporter is touched.
C9_TypographyIsolation ==
    [][(future.pc = "running" /\ future'.pc = "finished") =>
          /\ smartTypography[future.exporter]
          /\ future'.html = ExportToHtml(future.exporter, future.text, TRUE)
          /\ smartTypography'[future.exporter] = preRenderSmart
          /\ \A e \in Exporters \ {future.exporter} :
                 smartTypography'[e] = smartTypography[e]]_vars

\* A render made with typographic quotes has finished and the exporter's
\* setting is off again.
C9_Witness ==
    /\ future.pc = "finished"
    /\ "Q" \in {future.html[i] : i \in DOMAIN future.html}
    /\ ~smartTypography[future.exporter]

\* updateBaseDir() is this step.
UpdateBaseDirCall == calls' # <<>> /\ Head(calls') = "updateBaseDir"

\* C10 (path change): a change of the file path loads the page once, with
\* the base URL of the new path, and then requests one update; during a
\* render the request is coalesced and no render is dispatched.
C10_PathChangeReload ==
    [][(filePath' # filePath) =>
          /\ UpdateBaseDirCall
          /\ SubSeq(calls', 1, 3) = <<"updateBaseDir", "setHtml", "updatePreview">>
          /\ Count(calls', "setHtml") = 1
          /\ Count(calls', "updatePreview") = 1
          /\ baseUrl' = BaseUrlOf(filePath')
          /\ shellBaseUrl' = BaseUrlOf(filePath')
          /\ updateInProgress =>
                /\ updateAgain'
                /\ Count(calls', "run") = 0
                /\ UNCHANGED <<future, dispatched, updateInProgress>>]_vars

\* The path changed during a render, and the request was coalesced.
C10_Witness ==
    /\ HandlerIs("updateBaseDir")
    /\ calls = <<"updateBaseDir", "setHtml", "updatePreview">>
    /\ updateInProgress
    /\ updateAgain
    /\ shellBaseUrl = <<"file://", "dir", "/">>

---------------------------------------------------------------------------
\* C11 (empty-document idempotence): a call of updatePreview() on a visible
\* preview with an empty document and no render in flight leaves the
\* published markup empty; textChanged() is emitted once when the markup
\* was not empty before, and an attached page is given the empty text; a
\* call that finds the markup empty already notifies nobody.
C11_EmptyDocumentIdempotence ==
    [][(UpdatePreviewCall /\ visible /\ ~updateInProgress /\ document = <<>>) =>
          /\ livePreviewHtml' = <<>>
          /\ Count(calls', "textChanged")
                 = (IF livePreviewHtml # <<>> THEN 1 ELSE 0)
          /\ page'.attached => page'.content = <<>>
          /\ livePreviewHtml = <<>> => page' = page]_vars

\* The markup of a document that was emptied went from a rendered text to
\* the empty one, and the attached page was told.
C11_Witness ==
    /\ calls = <<"updatePreview", "setHtmlContent", "textChanged">>
    /\ visible
    /\ document = <<>>
    /\ page.attached
    /\ page.content = <<>>

---------------------------------------------------------------------------
\* setHtmlExporter() is this step.
SetHtmlExporterCall == calls' # <<>> /\ Head(calls') = "setHtmlExporter"

\* The calls of a handler without the signals they emitted.
CallsMade(log) == SelectSeq(log, LAMBDA c : c # "textChanged")

\* The first n calls of a handler, or all of them when they are fewer.
FirstCalls(log, n) == SubSeq(log, 1, IF Len(log) < n THEN Len(log) ELSE n)

\* C12 (renderer swap): setHtmlExporter() clears the baseline and the
\* published markup through setHtmlContent() and then calls
\* updatePreview(); an empty baseline stays empty until a render completes,
\* and the result that completes over it, when it has lines, is published
\* in full with the anchor before its first line and becomes the baseline.
C12_RendererSwap ==
    [][/\ SetHtmlExporterCall =>
             /\ FirstCalls(CallsMade(calls'), 3)
                    = <<"setHtmlExporter", "setHtmlContent", "updatePreview">>
             /\ Count(calls', "updatePreview") = 1
             /\ vanillaHtml' = <<>>
             /\ livePreviewHtml' = <<>>
       /\ (vanillaHtml = <<>> /\ ~Completion) => vanillaHtml' = <<>>
       /\ (vanillaHtml = <<>> /\ Completion /\ NewLines # <<>>) =>
             /\ FirstCalls(calls', 2) = <<"onHtmlReady", "setHtmlContent">>
             /\ ~PublishesAgain =>
                   /\ livePreviewHtml' = AnchoredAt(NewLines, 0)
                   /\ vanillaHtml' = future.html]_vars

\* A swap cleared a published text and dispatched a render of the new
\* exporter over the empty baseline.
C12_Witness ==
    /\ calls = <<"setHtmlExporter", "setHtmlContent", "textChanged",
                 "updatePreview", "run">>
    /\ vanillaHtml = <<>>
    /\ livePreviewHtml = <<>>
    /\ future.pc = "queued"
    /\ future.exporter = exporter

\* C13 (empty-input guard): updatePreview() on a visible preview with an
\* empty document and no render in flight publishes the empty text before
\* it returns, with or without an exporter, and dispatches nothing.
C13_EmptyInputGuard ==
    [][(UpdatePreviewCall /\ ~updateInProgress /\ visible /\ document = <<>>) =>
          /\ FirstCalls(calls', 2) = <<"updatePreview", "setHtmlContent">>
          /\ livePreviewHtml' = <<>>
          /\ vanillaHtml' = <<>>
          /\ Count(calls', "run") = 0
          /\ ~updateInProgress'
          /\ UNCHANGED <<future, dispatched>>]_vars

\* The empty text was published for an empty document though an exporter
\* is set.
C13_Witness ==
    /\ FirstCalls(calls, 2) = <<"updatePreview", "setHtmlContent">>
    /\ visible
    /\ document = <<>>
    /\ exporter # NoExporter
    /\ ~updateInProgress

\* C14 (no renderer): updatePreview() on a visible preview with a document
\* that is not empty, no exporter and no render in flight does nothing.
C14_NoRenderer ==
    [][(UpdatePreviewCall /\ ~updateInProgress /\ visible /\ document # <<>>
            /\ exporter = NoExporter) =>
          /\ calls' = <<"updatePreview">>
          /\ UNCHANGED <<updateInProgress, updateAgain, vanillaHtml,
                         livePreviewHtml, future, dispatched>>]_vars

\* updatePreview() returned without an exporter and left a published text
\* as it was.
C14_Witness ==
    /\ calls = <<"updatePreview">>
    /\ visible
    /\ document # <<>>
    /\ exporter = NoExporter
    /\ ~updateInProgress
    /\ vanillaHtml # <<>>

\* closeEvent() is this step.
CloseEventCall == calls' # <<>> /\ Head(calls') = "closeEvent"

\* C15 (close resets content): when closeEvent() returns, vanillaHtml and
\* the published markup are empty, whatever they held and whether or not a
\* render is in flight.
C15_CloseResetsContent ==
    [][CloseEventCall =>
          /\ vanillaHtml' = <<>>
          /\ livePreviewHtml' = <<>>]_vars

\* The preview was closed during a render and its published text was
\* cleared.
C15_Witness ==
    /\ HandlerIs("closeEvent")
    /\ Count(calls, "textChanged") = 1
    /\ updateInProgress
    /\ vanillaHtml = <<>>
    /\ livePreviewHtml = <<>>

---------------------------------------------------------------------------
\* C16 (teardown drain): the destructor has returned only when no render
\* is queued or running on the worker.
C16_TeardownDrain ==
    lifecycle = "destroyed" => future.pc \notin {"queued", "running"}

\* The destructor was entered during a render, the worker finished the
\* render meanwhile, and the destructor returned.
C16_Witness ==
    /\ lifecycle = "destroyed"
    /\ future.pc = "finished"
    /\ calls = <<>>

\* C17 (late subscriber): a page whose script has attached holds the
\* published markup and the style sheet as they are now: those published
\* before it attached, and every change since.
C17_LateSubscriber ==
    page.attached =>
        /\ page.content = livePreviewHtml
        /\ page.style = styleSheet

\* The script attached after a text and a style sheet had been published.
C17_Witness ==
    /\ calls = <<"onChannelReady">>
    /\ page.attached
    /\ page.content # <<>>
    /\ page.style # <<>>

\* C18 (baseline and published markup): the published markup and
\* vanillaHtml are both empty, or the markup is the lines of vanillaHtml
\* with one anchor put in; vanillaHtml never holds the anchor.
C18_BaselinePublished ==
    /\ \A i \in DOMAIN vanillaHtml : vanillaHtml[i] # Anchor
    /\ \/ livePreviewHtml = <<>> /\ vanillaHtml = <<>>
       \/ \E k \in 0..Len(OldLines) : livePreviewHtml = AnchoredAt(OldLines, k)

\* A completion published a result: the baseline is the result as the
\* exporter wrote it and the markup is its anchored form.
C18_Witness ==
    /\ HandlerIs("onHtmlReady")
    /\ vanillaHtml = <<"Q", "Q">>
    /\ livePreviewHtml = <<Anchor, "Q", "Q", NL>>

\* C19 (completion releases the slot): every completion ends with
\* updateAgain clear.  When updateAgain was set, updatePreview() is called
\* once, and updateInProgress is set on return exactly when that call
\* dispatched a render, which is then queued; when it was not set, nothing
\* is called or dispatched, updateInProgress is clear and no render is left.
C19_CompletionReleasesSlot ==
    [][Completion =>
          /\ ~updateAgain'
          /\ updateAgain =>
                /\ Count(calls', "updatePreview") = 1
                /\ updateInProgress' <=> Count(calls', "run") = 1
                /\ updateInProgress' <=> future'.pc = "queued"
                /\ ~updateInProgress' => future'.pc = "none"
          /\ ~updateAgain =>
                /\ Count(calls', "updatePreview") = 0
                /\ Count(calls', "run") = 0
                /\ ~updateInProgress'
                /\ future'.pc = "none"
                /\ dispatched' = 0]_vars

\* A render completed that found no difference and no request waiting:
\* both flags are clear.
C19_Witness ==
    /\ calls = <<"onHtmlReady">>
    /\ ~updateInProgress
    /\ ~updateAgain
    /\ future.pc = "none"
    /\ vanillaHtml # <<>>

---------------------------------------------------------------------------
\* The diff of this completion publishes the result.
DiffPublishes == FirstCalls(calls', 2) = <<"onHtmlReady", "setHtmlContent">>

\* C20 as stated: the result of a render that was dispatched before
\* closeEvent() or setHtmlExporter() reset the content is not published,
\* and an empty markup gets a text only at a completion, so that it stays
\* empty after closeEvent() until updatePreview() is called.
C20_Original ==
    [][/\ (Completion /\ resetInFlight) => ~DiffPublishes
       /\ (livePreviewHtml = <<>> /\ livePreviewHtml' # <<>>) => Completion]_vars

\* C20 (publication after a reset), amended: closeEvent() and
\* setHtmlExporter() do not cancel the render in flight.  When it completes
\* the baseline is still empty, and its result, when it has lines, is
\* published in full and becomes the baseline.  An empty markup gets a text
\* only at a completion: after a reset with no render in flight it stays
\* empty until a render dispatched by a later updatePreview() completes.
C20_PublicationAfterReset ==
    [][/\ (Completion /\ resetInFlight) =>
             /\ vanillaHtml = <<>>
             /\ NewLines # <<>> =>
                   /\ DiffPublishes
                   /\ ~PublishesAgain =>
                         /\ livePreviewHtml' = AnchoredAt(NewLines, 0)
                         /\ vanillaHtml' = future.html
       /\ (livePreviewHtml = <<>> /\ livePreviewHtml' # <<>>) => Completion
       /\ ((CloseEventCall \/ SetHtmlExporterCall) /\ ~updateInProgress) =>
             ~resetInFlight']_vars

\* The preview was closed during a render, which has finished since: its
\* result is about to be delivered over the content that was reset.
C20_Witness ==
    /\ HandlerIs("closeEvent")
    /\ resetInFlight
    /\ future.pc = "finished"
    /\ future.html # <<>>
    /\ vanillaHtml = <<>>
    /\ livePreviewHtml = <<>>

====
